---- MODULE Spec2Model ----
(***************************************************************************)
(* A model of pylive (src/pylive.py): the Post object built from one       *)
(* Markdown file, PyLive.create_blogchain (construct, filter drafts, sort, *)
(* chain-link the non-hidden posts) and PyLive.main (write the pages, the  *)
(* landing page and the feed).                                             *)
(*                                                                         *)
(* Text is modelled as sequences of tokens: a file is a sequence of lines, *)
(* a line is a sequence of tokens, a token is a string that the code never *)
(* looks into (a word, one digit, one punctuation character, one blank).   *)
(* Every line of a file is taken to end with a newline.                    *)
(***************************************************************************)
EXTENDS Integers, Sequences, FiniteSets, TLC

(***************************************************************************)
(* Bounds                                                                  *)
(***************************************************************************)
\* the largest number of files of the content directory in Spec
MaxFiles == 3
\* the largest number of files of the content directory in SpecChain
MaxChain == 5
\* the largest number of files of the content directory in SpecSort
MaxSort == 3
\* the largest number of files of the content directory in SpecParse
MaxParse == 2
\* the largest number of files of the content directory in SpecTies
MaxTies == 7
\* the number of threads that format a printable date in SpecLocale
NThreads == 2

(***************************************************************************)
(* Text helpers                                                            *)
(***************************************************************************)
Digits == {"0", "1", "2", "3", "4", "5", "6", "7", "8", "9"}

IsSpace(t) == t = " "

\* str.lower() on one token
Lower(t) ==
  CASE t = "Title"  -> "title"
    [] t = "Date"   -> "date"
    [] t = "Draft"  -> "draft"
    [] t = "Hidden" -> "hidden"
    [] t = "A"      -> "a"
    [] t = "B"      -> "b"
    [] OTHER        -> t

LowerSeq(s) == [i \in 1..Len(s) |-> Lower(s[i])]

RECURSIVE LStrip(_)
LStrip(s) == IF s # <<>> /\ IsSpace(Head(s)) THEN LStrip(Tail(s)) ELSE s

RECURSIVE RStrip(_)
RStrip(s) ==
  IF s # <<>> /\ IsSpace(s[Len(s)]) THEN RStrip(SubSeq(s, 1, Len(s) - 1)) ELSE s

\* str.strip() on one line
Strip(s) == RStrip(LStrip(s))

\* a line that holds nothing but blanks
IsBlank(line) == \A i \in 1..Len(line) : IsSpace(line[i])

\* the position of the first token t of s, 0 when there is none
RECURSIVE IndexOf(_, _, _)
IndexOf(s, t, i) ==
  IF i > Len(s) THEN 0 ELSE IF s[i] = t THEN i ELSE IndexOf(s, t, i + 1)

\* s.split(sep): the parts of s between the tokens sep
RECURSIVE SplitOn(_, _)
SplitOn(s, sep) ==
  IF s = <<>> THEN << <<>> >>
  ELSE LET r == SplitOn(Tail(s), sep) IN
       IF Head(s) = sep THEN << <<>> >> \o r
       ELSE << <<Head(s)>> \o Head(r) >> \o Tail(r)

(***************************************************************************)
(* Post.__parse_date: strptime with "%d.%m.%y", then with "%d.%m.%Y".      *)
(* A date is the number year*10000 + month*100 + day; 0 is None.           *)
(***************************************************************************)
DigitVal(c) ==
  CASE c = "0" -> 0 [] c = "1" -> 1 [] c = "2" -> 2 [] c = "3" -> 3
    [] c = "4" -> 4 [] c = "5" -> 5 [] c = "6" -> 6 [] c = "7" -> 7
    [] c = "8" -> 8 [] c = "9" -> 9

IsDigits(p) == \A i \in 1..Len(p) : p[i] \in Digits

RECURSIVE Num(_)
Num(p) == IF p = <<>> THEN 0 ELSE 10 * Num(SubSeq(p, 1, Len(p) - 1)) + DigitVal(p[Len(p)])

IsLeap(y) == (y % 4 = 0 /\ y % 100 # 0) \/ y % 400 = 0

DaysIn(m, y) ==
  IF m = 2 THEN (IF IsLeap(y) THEN 29 ELSE 28)
  ELSE IF m \in {4, 6, 9, 11} THEN 30 ELSE 31

\* the year of a %y field (two digits, n) or a %Y field (four digits, n)
YearOf(n, fmt) ==
  IF fmt = "%d.%m.%y" THEN (IF n <= 68 THEN 2000 + n ELSE 1900 + n) ELSE n

YearLen(fmt) == IF fmt = "%d.%m.%y" THEN 2 ELSE 4

\* the date of the day d of the month m of the year y, 0 when there is none
date_of(d, m, y) ==
  IF m \in 1..12 /\ y >= 1 /\ d >= 1 /\ d <= DaysIn(m, y)
  THEN y * 10000 + m * 100 + d
  ELSE 0

\* the fields of a date string: day.month.year, one or two digits for the
\* day and for the month, two (%y) or four (%Y) digits for the year
fields_match(parts, fmt) ==
  /\ Len(parts) = 3
  /\ \A k \in 1..3 : IsDigits(parts[k])
  /\ Len(parts[1]) \in {1, 2}
  /\ Len(parts[2]) \in {1, 2}
  /\ Len(parts[3]) = YearLen(fmt)

date_of_fields(parts, fmt) ==
  IF fields_match(parts, fmt)
  THEN date_of(Num(parts[1]), Num(parts[2]), YearOf(Num(parts[3]), fmt))
  ELSE 0

\* datetime.strptime(s, fmt) for the two formats of the program; 0 when it raises
strptime(s, fmt) == date_of_fields(SplitOn(s, "."), fmt)

supported_formats == <<"%d.%m.%y", "%d.%m.%Y">>

\* the loop over supported_formats from the k-th on: dt is what strptime
\* gave for the k-th; the first format that parses ends the loop
RECURSIVE parse_date_from(_, _, _)
parse_date_from(prefix_date, k, dt) ==
  IF dt # 0 THEN dt
  ELSE IF k + 1 > Len(supported_formats) THEN 0
  ELSE parse_date_from(prefix_date, k + 1,
                       strptime(prefix_date, supported_formats[k + 1]))

parse_date(prefix_date) ==
  parse_date_from(prefix_date, 1, strptime(prefix_date, supported_formats[1]))

(***************************************************************************)
(* Post.__segment: re.split(r"---\s*\n", text), strip every segment and    *)
(* keep the non-empty ones.  A segment is a sequence of lines.             *)
(***************************************************************************)
\* where the pattern ---\s*\n matches in a line: at a token --- that only
\* blanks follow up to the newline; 0 when the line holds no match
DelimAt(line) ==
  IF \E k \in 1..Len(line) :
       line[k] = "---" /\ \A j \in (k + 1)..Len(line) : IsSpace(line[j])
  THEN CHOOSE k \in 1..Len(line) :
       line[k] = "---" /\ \A j \in (k + 1)..Len(line) : IsSpace(line[j])
  ELSE 0

\* re.split: cur is the segment being collected, what precedes the match
\* in its line still belongs to it
RECURSIVE re_split(_, _, _, _)
re_split(lines, i, cur, k) ==
  IF i > Len(lines) THEN <<cur>>
  ELSE IF k = 0
  THEN re_split(lines, i + 1, Append(cur, lines[i]),
                IF i + 1 > Len(lines) THEN 0 ELSE DelimAt(lines[i + 1]))
  ELSE <<Append(cur, SubSeq(lines[i], 1, k - 1))>>
       \o re_split(lines, i + 1, <<>>,
                   IF i + 1 > Len(lines) THEN 0 ELSE DelimAt(lines[i + 1]))

RECURSIVE DropBlankHead(_)
DropBlankHead(seg) ==
  IF seg # <<>> /\ IsBlank(Head(seg)) THEN DropBlankHead(Tail(seg)) ELSE seg

RECURSIVE DropBlankTail(_)
DropBlankTail(seg) ==
  IF seg # <<>> /\ IsBlank(seg[Len(seg)])
  THEN DropBlankTail(SubSeq(seg, 1, Len(seg) - 1)) ELSE seg

\* the blanks at the start of the first line and at the end of the last
StripEnds(t) ==
  [k \in 1..Len(t) |->
     IF k = 1 /\ k = Len(t) THEN Strip(t[k])
     ELSE IF k = 1 THEN LStrip(t[k])
     ELSE IF k = Len(t) THEN RStrip(t[k])
     ELSE t[k]]

\* str.strip() on a segment of several lines
StripSeg(seg) == StripEnds(DropBlankTail(DropBlankHead(seg)))

\* the segments s with len(s.strip()) > 0, stripped
RECURSIVE KeepNonEmpty(_)
KeepNonEmpty(stripped) ==
  IF stripped = <<>> THEN <<>>
  ELSE (IF Head(stripped) = <<>> THEN <<>> ELSE <<Head(stripped)>>)
       \o KeepNonEmpty(Tail(stripped))

StripAll(segs) == [k \in 1..Len(segs) |-> StripSeg(segs[k])]

FirstDelim(text) == IF text = <<>> THEN 0 ELSE DelimAt(text[1])

segments_of(text) == KeepNonEmpty(StripAll(re_split(text, 1, <<>>, FirstDelim(text))))

(***************************************************************************)
(* Post.__parse_header and Post.__validate_header.  A header is a function *)
(* from keys to values, both token sequences.                              *)
(***************************************************************************)
EmptyDict == [k \in {} |-> <<>>]

Put(d, k, v) == [x \in (DOMAIN d) \cup {k} |-> IF x = k THEN v ELSE d[x]]

Failed == [ok |-> FALSE, meta |-> EmptyDict, date |-> 0, valid |-> FALSE]

\* the loop over header.splitlines(): line.split(":", 1) raises when the line
\* holds no ":" (the two-name unpacking gets one value)
\* result[key.lower().strip()] = value.strip() for a line with ":" at c
put_line(result, line, c) ==
  Put(result, Strip(LowerSeq(SubSeq(line, 1, c - 1))),
              Strip(SubSeq(line, c + 1, Len(line))))

ColonAt(lines, i) == IF i > Len(lines) THEN 0 ELSE IndexOf(lines[i], ":", 1)

RECURSIVE header_lines(_, _, _, _)
header_lines(lines, i, result, c) ==
  IF i > Len(lines) THEN [ok |-> TRUE, meta |-> result]
  ELSE IF c = 0 THEN [ok |-> FALSE, meta |-> result]
  ELSE header_lines(lines, i + 1, put_line(result, lines[i], c), ColonAt(lines, i + 1))

required_keys == {<<"title">>, <<"date">>}

\* what __validate_header returns, and the date and the valid flag it
\* leaves: dt is the parsed date of a header with the key date
validated(header, dt) ==
  [result |-> TRUE,
   date   |-> dt,
   valid  |-> ~(required_keys \ DOMAIN header # {}
                  \/ (<<"date">> \in DOMAIN header /\ dt = 0))]

validate_header(header) ==
  validated(header,
            IF <<"date">> \in DOMAIN header THEN parse_date(header[<<"date">>]) ELSE 0)

\* the end of __parse_header: raise unless __validate_header returned True,
\* else self.valid = True
header_result(meta, v) ==
  IF ~v.result THEN Failed
  ELSE [ok |-> TRUE, meta |-> meta, date |-> v.date, valid |-> TRUE]

parsed_lines(r) == IF ~r.ok THEN Failed ELSE header_result(r.meta, validate_header(r.meta))

parse_header(header) == parsed_lines(header_lines(header, 1, EmptyDict, ColonAt(header, 1)))

segment_result(h, raw_text) == [ok |-> h.ok, h |-> h, raw_text |-> raw_text]

\* __segment that takes the first segment for the header and the second
\* for the text
split_segments_first_two(segments) ==
  IF Len(segments) < 2 THEN [ok |-> FALSE, h |-> Failed, raw_text |-> <<>>]
  ELSE segment_result(parse_header(segments[1]), segments[2])

\* the second last segment is the header, the last the text
split_segments(segments) ==
  IF Len(segments) < 2 THEN [ok |-> FALSE, h |-> Failed, raw_text |-> <<>>]
  ELSE segment_result(parse_header(segments[Len(segments) - 1]), segments[Len(segments)])

\* Post.__segment
segment(text) == split_segments(segments_of(text))

(***************************************************************************)
(* Post.__parse_attributes and Post.__init__                               *)
(***************************************************************************)
DEFAULT_LOCALE == <<"de_DE">>

\* the first of the keys lang, language the header holds decides the language
lang_of(meta) ==
  IF <<"lang">> \in DOMAIN meta THEN meta[<<"lang">>]
  ELSE IF <<"language">> \in DOMAIN meta THEN meta[<<"language">>]
  ELSE DEFAULT_LOCALE

\* __parse_attributes with a draft flag that reads the value: "draft: false"
\* is no draft
parse_attributes_draft_value(meta, date) ==
  IF <<"date">> \notin DOMAIN meta
  THEN [ok |-> FALSE, date |-> date, lang |-> DEFAULT_LOCALE,
        draft |-> FALSE, hidden |-> FALSE]
  ELSE [ok |-> TRUE, date |-> date, lang |-> DEFAULT_LOCALE,
        draft  |-> <<"draft">> \in DOMAIN meta /\ meta[<<"draft">>] # <<"false">>,
        hidden |-> <<"hidden">> \in DOMAIN meta]

\* __parse_attributes with meta.get("date"): no KeyError without the key
parse_attributes_no_keyerror(meta, date) ==
  [ok |-> TRUE, date |-> date, lang |-> DEFAULT_LOCALE,
   draft  |-> <<"draft">> \in DOMAIN meta,
   hidden |-> <<"hidden">> \in DOMAIN meta]

\* meta["date"] raises KeyError without the key; the date parsed there is
\* compared with self.__date and dropped, so the date stays what
\* __validate_header left
parse_attributes(meta, date) ==
  IF <<"date">> \notin DOMAIN meta
  THEN [ok |-> FALSE, date |-> date, lang |-> lang_of(meta),
        draft |-> FALSE, hidden |-> FALSE]
  ELSE [ok |-> TRUE, date |-> date, lang |-> lang_of(meta),
        draft  |-> <<"draft">> \in DOMAIN meta,
        hidden |-> <<"hidden">> \in DOMAIN meta]

NoPost == [ok |-> FALSE, filename |-> <<>>, meta |-> EmptyDict, raw_text |-> <<>>,
           date |-> 0, valid |-> FALSE, lang |-> DEFAULT_LOCALE,
           draft |-> FALSE, hidden |-> FALSE]

\* the object __init__ leaves when __parse_attributes gave a
post_with(name, s, a) ==
  IF ~a.ok THEN NoPost
  ELSE [ok |-> TRUE, filename |-> name, meta |-> s.h.meta,
        raw_text |-> s.raw_text, date |-> a.date, valid |-> s.h.valid,
        lang |-> a.lang, draft |-> a.draft, hidden |-> a.hidden]

\* __init__ after __segment gave s
post_of(name, s) ==
  IF ~s.ok THEN NoPost ELSE post_with(name, s, parse_attributes(s.h.meta, s.h.date))

\* Post(full_filename) for a file with the basename name and the contents text
Post(name, text) == post_of(name, segment(text))

\* the property title
title(post) ==
  IF <<"title">> \in DOMAIN post.meta THEN post.meta[<<"title">>] ELSE <<"Untitled">>

\* PyLive.create_post_object: a Post, or None (ok = FALSE) when Post raises
create_post_object(name, text) == Post(name, text)

(***************************************************************************)
(* Post.__lt__ and sorted(list_of_post_objects, reverse=True).             *)
(* list.sort on fewer than 64 elements: reverse the list, find the run at  *)
(* its start (count_run), insert the rest by binary insertion              *)
(* (binarysort), reverse the result.  Only __lt__ is ever called.          *)
(***************************************************************************)
\* Post.__lt__ on the dates of self and other; None (0) is falsy
Post_lt(self_date, other_date) ==
  IF self_date # 0 /\ other_date # 0 THEN self_date < other_date ELSE FALSE

Reverse(s) == [k \in 1..Len(s) |-> s[Len(s) + 1 - k]]

\* the length of the run that starts the list; descending is TRUE for a
\* strictly descending run, which count_run's caller reverses in place
RECURSIVE run_end(_, _, _, _)
run_end(a, dateOf, k, descending) ==
  IF k >= Len(a) THEN k
  ELSE IF Post_lt(dateOf[a[k + 1]], dateOf[a[k]]) = descending
       THEN run_end(a, dateOf, k + 1, descending)
       ELSE k

run_of(a, dateOf, descending) ==
  [n |-> run_end(a, dateOf, 2, descending), descending |-> descending]

count_run(a, dateOf) ==
  IF Len(a) <= 1 THEN [n |-> Len(a), descending |-> FALSE]
  ELSE run_of(a, dateOf, Post_lt(dateOf[a[2]], dateOf[a[1]]))

\* the binary search of binarysort: where pivot goes among a[1..start-1]
RECURSIVE insertion_point(_, _, _, _, _)
insertion_point(a, dateOf, pivot, l, r) ==
  IF l >= r THEN l
  ELSE LET p == l + ((r - l) \div 2) IN
       IF Post_lt(dateOf[pivot], dateOf[a[p]])
       THEN insertion_point(a, dateOf, pivot, l, p)
       ELSE insertion_point(a, dateOf, pivot, p + 1, r)

\* a with a[start] moved to the position l <= start
moved(a, start, l) ==
  SubSeq(a, 1, l - 1) \o <<a[start]>> \o SubSeq(a, l, start - 1)
    \o SubSeq(a, start + 1, Len(a))

RECURSIVE binarysort(_, _, _)
binarysort(a, dateOf, start) ==
  IF start > Len(a) THEN a
  ELSE binarysort(moved(a, start, insertion_point(a, dateOf, a[start], 1, start)),
                  dateOf, start + 1)

\* the list after count_run: a descending run is reversed in place
run_reversed(a, run) ==
  IF run.descending
  THEN Reverse(SubSeq(a, 1, run.n)) \o SubSeq(a, run.n + 1, Len(a))
  ELSE a

sort_from_run(a, dateOf, run) == binarysort(run_reversed(a, run), dateOf, run.n + 1)

\* list.sort() ascending
list_sort(a, dateOf) == sort_from_run(a, dateOf, count_run(a, dateOf))

\* sorted(a) without reverse=True
sorted_ascending(a, dateOf) == list_sort(a, dateOf)

\* sorted(a, reverse=True)
sorted_reverse(a, dateOf) == Reverse(list_sort(Reverse(a), dateOf))

(***************************************************************************)
(* slugify = UniqueSlugify() and the property Post.slug.  A slug is a      *)
(* token sequence; the generator keeps the slugs it has handed out.        *)
(***************************************************************************)
Separators == {" ", "-", "_", "!", ".", ":"}

\* Slugify.__call__(text, to_lower=True): the lowercased runs of letters
\* and digits, joined by the separator "-"
RECURSIVE slug_text(_, _, _)
slug_text(text, out, gap) ==
  IF text = <<>> THEN out
  ELSE IF Head(text) \in Separators THEN slug_text(Tail(text), out, TRUE)
  ELSE slug_text(Tail(text),
                 out \o (IF gap /\ out # <<>> THEN <<"-">> ELSE <<>>)
                     \o <<Lower(Head(text))>>,
                 FALSE)

\* "%d" % count
RECURSIVE decimal(_)
decimal(n) ==
  LET d == <<"0", "1", "2", "3", "4", "5", "6", "7", "8", "9">>[(n % 10) + 1] IN
  IF n < 10 THEN <<d>> ELSE decimal(n \div 10) \o <<d>>

\* UniqueSlugify.__call__: the text itself when it is new, else the text
\* with the first suffix -1, -2, ... that makes it new; the result is kept
RECURSIVE unique_slug(_, _, _, _)
unique_slug(text, used, count, newtext) ==
  IF newtext \in used
  THEN unique_slug(text, used, count + 1, text \o <<"-">> \o decimal(count + 1))
  ELSE [slug |-> newtext, uids |-> used \cup {newtext}]

unique(text, used) == unique_slug(text, used, 0, text)

slugify(text, used) == unique(slug_text(text, <<>>, FALSE), used)

OUTPUT_EXTENSION == <<".html">>

NoSlug == [set |-> FALSE, value |-> <<>>]

\* "not self.__slug": None and the empty string are both falsy
slug_unset(s) == ~s.set \/ s.value = <<>>

\* one read of the property slug of post p, whose file has the basename
\* stem + extension: ss holds the slugs of the posts, the generator's used
\* slugs, how often the generator ran for each post and the values read
slug_made(ss, p, r) ==
  [slug  |-> [ss.slug EXCEPT ![p] = [set |-> TRUE, value |-> r.slug]],
   uids  |-> r.uids,
   calls |-> [ss.calls EXCEPT ![p] = @ + 1],
   reads |-> [ss.reads EXCEPT ![p] = Append(@, r.slug)],
   ret   |-> r.slug]

read_slug(ss, p, stem) ==
  IF slug_unset(ss.slug[p])
  THEN slug_made(ss, p, slugify(stem, ss.uids))
  ELSE [ss EXCEPT !.reads = [ss.reads EXCEPT ![p] = Append(@, ss.slug[p].value)],
                  !.ret = ss.slug[p].value]

\* the property outfile
outfile_of(slug_value) == slug_value \o OUTPUT_EXTENSION

(***************************************************************************)
(* PyLive.list_post_files_to_compile                                       *)
(***************************************************************************)
IGNOREFILES == {<<"README">>, <<"TEMPLATE">>}
EXTENSIONS == {".md"}

RECURSIVE list_post_files_to_compile(_)
list_post_files_to_compile(dir) ==
  IF dir = <<>> THEN <<>>
  ELSE (IF Head(dir).ext \in EXTENSIONS /\ Head(dir).stem \notin IGNOREFILES
        THEN <<Head(dir)>> ELSE <<>>)
       \o list_post_files_to_compile(Tail(dir))

(***************************************************************************)
(* The files the content directory may hold                                *)
(***************************************************************************)
Delim == <<"---">>
TitleLine == <<"title", ":", " ", "T">>
BodyLine == <<"text">>
DateLine(v) == <<"date", ":", " ">> \o v
File(stem, ext, text) == [stem |-> stem, ext |-> ext, text |-> text]

\* header between two delimiter lines, two-digit year
FileA ==
  File(<<"a">>, ".md",
       <<Delim, TitleLine, DateLine(<<"0","3",".","0","1",".","2","3">>), Delim, BodyLine>>)

\* closing delimiter only, four-digit year, the same day as a.md
FileUpperA ==
  File(<<"A">>, ".md",
       <<TitleLine, DateLine(<<"0","3",".","0","1",".","2","0","2","3">>), Delim, BodyLine>>)

\* a hidden post
FileIndex ==
  File(<<"index">>, ".md",
       <<TitleLine, DateLine(<<"0","1",".","0","1",".","2","3">>),
         <<"hidden", ":", " ", "yes">>, Delim, BodyLine>>)

\* a date in a format that is not supported
FileIsoDate ==
  File(<<"c">>, ".md",
       <<TitleLine, DateLine(<<"2","0","2","3","-","0","1","-","0","1">>), Delim, BodyLine>>)

FileK ==
  File(<<"k">>, ".md",
       <<TitleLine, DateLine(<<"0","2",".","0","1",".","2","3">>), Delim, BodyLine>>)

\* drafts: "draft: false" and "Draft:" without a value
FileDraftFalse ==
  File(<<"d">>, ".md",
       <<TitleLine, DateLine(<<"0","4",".","0","1",".","2","3">>),
         <<"draft", ":", " ", "false">>, Delim, BodyLine>>)

FileDraftEmpty ==
  File(<<"e">>, ".md",
       <<<<"Title", ":", "T">>, <<"Date", " ", ":", "0","4",".","0","1",".","2","3", " ">>,
         <<"Draft", ":">>, Delim, BodyLine>>)

\* no date key
FileNoDate == File(<<"f">>, ".md", <<TitleLine, Delim, BodyLine>>)

\* no title key
FileNoTitle ==
  File(<<"g">>, ".md",
       <<DateLine(<<"0","4",".","0","1",".","2","3">>), Delim, BodyLine>>)

\* no delimiter line: one segment
FileOneSegment ==
  File(<<"h">>, ".md",
       <<TitleLine, DateLine(<<"0","4",".","0","1",".","2","3">>), BodyLine>>)

\* a header line without ":"
FileNoColon ==
  File(<<"i">>, ".md",
       <<TitleLine, <<"note">>, DateLine(<<"0","4",".","0","1",".","2","3">>), Delim, BodyLine>>)

\* a basename without letters or digits
FileBang ==
  File(<<"!">>, ".md",
       <<TitleLine, DateLine(<<"0","5",".","0","1",".","2","3">>), Delim, BodyLine>>)

\* files create_blogchain does not look at
FileReadme ==
  File(<<"README">>, ".md",
       <<TitleLine, DateLine(<<"0","6",".","0","1",".","2","3">>), Delim, BodyLine>>)

FileText ==
  File(<<"n">>, ".txt",
       <<TitleLine, DateLine(<<"0","6",".","0","1",".","2","3">>), Delim, BodyLine>>)

\* the files of Spec
Catalog ==
  { FileA, FileUpperA, FileIndex, FileIsoDate, FileK, FileDraftFalse, FileDraftEmpty,
    FileNoDate, FileNoTitle, FileOneSegment, FileNoColon, FileBang, FileReadme }

\* the files of SpecSort: posts with a date, two of them of the same day and
\* with the same slug text, and files that give no post of the list
SortCatalog ==
  { FileA, FileUpperA, FileK, FileIndex, FileNoTitle, FileIsoDate, FileDraftFalse,
    FileReadme, FileText }

\* the same document as k.md with an opening delimiter line before the header
FileOpening == File(<<"k2">>, ".md", <<Delim>> \o FileK.text)

\* three segments: a preface, the header, the text
FilePreface ==
  File(<<"m">>, ".md",
       << <<"intro">>, Delim, TitleLine, <<"author", ":", " ", "N">>,
          DateLine(<<"0","2",".","0","1",".","2","3">>), Delim, BodyLine>>)

FilePrefaceOpening == File(<<"m2">>, ".md", <<Delim>> \o FilePreface.text)

\* a delimiter line inside the text: the first part of the text is taken
\* for the header
FileRule ==
  File(<<"r">>, ".md",
       <<TitleLine, DateLine(<<"0","2",".","0","1",".","2","3">>), Delim, BodyLine,
         Delim, <<"more">>>>)

\* one segment: nothing before the delimiter line, blanks before it, an
\* empty file
FileDelimFirst == File(<<"s">>, ".md", <<Delim, BodyLine>>)

FileBlankHeader == File(<<"t">>, ".md", << <<" ">>, Delim, BodyLine>>)

FileEmpty == File(<<"u">>, ".md", <<>>)

\* blanks after the delimiter, blank lines around the text, a delimiter
\* line at the end
FileDelimBlanks ==
  File(<<"v">>, ".md",
       <<TitleLine, DateLine(<<"0","2",".","0","1",".","2","3">>), <<"---", " ">>,
         <<>>, <<" ", "text", " ">>, <<" ">>, Delim>>)

FileDelimBlanksOpening == File(<<"v2">>, ".md", <<Delim>> \o FileDelimBlanks.text)

\* an empty line and a line of blanks between the lines of the header
FileBlankLine ==
  File(<<"w">>, ".md",
       <<TitleLine, <<>>, DateLine(<<"0","2",".","0","1",".","2","3">>), Delim, BodyLine>>)

FileBlanksLine ==
  File(<<"x">>, ".md",
       <<TitleLine, <<" ", " ">>, DateLine(<<"0","2",".","0","1",".","2","3">>), Delim,
         BodyLine>>)

\* the key title twice, in two spellings, and a value with a ":"
FileDuplicate ==
  File(<<"y">>, ".md",
       <<TitleLine, DateLine(<<"0","2",".","0","1",".","2","3">>),
         <<" ", "Title", " ", ":", " ", "U", ":", "V", " ">>, Delim, BodyLine>>)

\* the files of SpecParse
ParseCatalog ==
  { FileK, FileOpening, FilePreface, FilePrefaceOpening, FileRule, FileDelimFirst,
    FileBlankHeader, FileEmpty, FileDelimBlanks, FileDelimBlanksOpening,
    FileOneSegment, FileNoDate, FileNoColon, FileDraftEmpty, FileBlankLine,
    FileBlanksLine, FileDuplicate }

\* the directory listings of at most n files of the set C, in every order
Listings(C, n) ==
  { l \in UNION { [1..m -> C] : m \in 0..n } :
      \A x, y \in 1..Len(l) : x # y => l[x] # l[y] }

\* the files of SpecChain: valid posts p1.md, p2.md, ..., hidden or not
ChainDates == { <<"0","1",".","0","1",".","2","3">>, <<"0","2",".","0","1",".","2","3">> }

ChainFile(k, hidden, date) ==
  File(<<"p">> \o decimal(k), ".md",
       <<Delim, TitleLine, DateLine(date)>>
         \o (IF hidden THEN << <<"hidden", ":">> >> ELSE <<>>)
         \o <<Delim, BodyLine>>)

ChainListings(n) ==
  UNION { { [k \in 1..m |-> ChainFile(k, h[k], d[k])] :
              h \in [1..m -> BOOLEAN], d \in [1..m -> ChainDates] } : m \in 0..n }

\* the files of SpecTies: posts q1.md, q2.md, ... of two days or with a
\* date that is not parsed, with titles of their own, every third hidden
TieDates ==
  { <<"0","1",".","0","1",".","2","3">>, <<"0","2",".","0","1",".","2","3">>,
    <<"2","0","2","3","-","0","1","-","0","1">> }

TieFile(k, date) ==
  File(<<"q">> \o decimal(k), ".md",
       << <<"title", ":", " ", "T">> \o decimal(k), DateLine(date)>>
         \o (IF k % 3 = 0 THEN << <<"hidden", ":">> >> ELSE <<>>)
         \o <<Delim, BodyLine>>)

TieListings(n) ==
  UNION { { [k \in 1..m |-> TieFile(k, d[k])] : d \in [1..m -> TieDates] } : m \in 0..n }

(***************************************************************************)
(* The state                                                               *)
(***************************************************************************)
VARIABLES
  files,                 \* os.listdir(path), in the order the system gives
  pc,                    \* where main is
  post_files_to_compile, \* the files create_blogchain constructs posts from
  i,                     \* the index of the loop main is in
  post_objs,             \* the Post objects, by the index of their file
  list_of_post_objects,  \* create_blogchain's list, later main's blogchain
  last_unhidden_post,    \* create_blogchain's local (0 is None)
  next,                  \* Post.__next of every post (0 is None)
  prev,                  \* Post.__prev of every post (0 is None)
  slugs,                 \* Post.__slug of every post, the generator's used
                         \* slugs, its calls per post and the values read
  written,               \* the files main has written, in order
  index_written,         \* main's local
  link_writes,           \* how often Post.next and Post.prev of every post
                         \* have been assigned
  LOCALE_LOCK,           \* Post.LOCALE_LOCK: the thread that holds it (0 is free)
  lc_all,                \* the locale of the process, locale.setlocale(LC_ALL)
  tpc,                   \* where every thread is in __create_printable_date
  tlang,                 \* the argument locale of every thread's call
  saved,                 \* the local saved of every thread's setlocale
  result,                \* the local result of every thread's call
  exc,                   \* the exception that is on its way in every thread
  strftimes,             \* the calls of date.strftime so far
  left                   \* how every thread left "with self.setlocale(locale)"

lvars == <<LOCALE_LOCK, lc_all, tpc, tlang, saved, result, exc, strftimes, left>>

vars == <<files, pc, post_files_to_compile, i, post_objs, list_of_post_objects,
          last_unhidden_post, next, prev, slugs, written, index_written,
          link_writes, lvars>>

Posts == 1..Len(post_files_to_compile)

dateOf == [p \in Posts |-> post_objs[p].date]

\* the locale the process starts with
BaseLocale == <<"C">>

\* no thread formats a date: main runs alone
NoThreads ==
  /\ LOCALE_LOCK = 0
  /\ lc_all = BaseLocale
  /\ tpc = <<>> /\ tlang = <<>> /\ saved = <<>> /\ result = <<>> /\ exc = <<>>
  /\ left = <<>>
  /\ strftimes = {}

InitRest ==
  /\ NoThreads
  /\ pc = "list"
  /\ post_files_to_compile = <<>>
  /\ i = 1
  /\ post_objs = <<>>
  /\ list_of_post_objects = <<>>
  /\ last_unhidden_post = 0
  /\ next = <<>>
  /\ prev = <<>>
  /\ slugs = [slug |-> <<>>, uids |-> {}, calls |-> <<>>, reads |-> <<>>, ret |-> <<>>]
  /\ written = <<>>
  /\ index_written = FALSE
  /\ link_writes = [next |-> <<>>, prev |-> <<>>]

Init == files \in Listings(Catalog, MaxFiles) /\ InitRest

InitChain == files \in ChainListings(MaxChain) /\ InitRest

InitSort == files \in Listings(SortCatalog, MaxSort) /\ InitRest

InitTies == files \in TieListings(MaxTies) /\ InitRest

InitParse == files \in Listings(ParseCatalog, MaxParse) /\ InitRest

(***************************************************************************)
(* create_blogchain                                                        *)
(***************************************************************************)
\* the call of list_post_files_to_compile; no Post object exists yet
ListFiles ==
  /\ pc = "list"
  /\ UNCHANGED lvars
  /\ post_files_to_compile' = list_post_files_to_compile(files)
  /\ post_objs' = [p \in 1..Len(post_files_to_compile') |-> NoPost]
  /\ next' = [p \in 1..Len(post_files_to_compile') |-> 0]
  /\ prev' = [p \in 1..Len(post_files_to_compile') |-> 0]
  /\ slugs' = [slugs EXCEPT
                 !.slug  = [p \in 1..Len(post_files_to_compile') |-> NoSlug],
                 !.calls = [p \in 1..Len(post_files_to_compile') |-> 0],
                 !.reads = [p \in 1..Len(post_files_to_compile') |-> <<>>]]
  /\ link_writes' = [next |-> [p \in 1..Len(post_files_to_compile') |-> 0],
                     prev |-> [p \in 1..Len(post_files_to_compile') |-> 0]]
  /\ i' = 1
  /\ pc' = "construct"
  /\ UNCHANGED <<files, list_of_post_objects, last_unhidden_post, written, index_written>>

\* "if post and not post.draft"
admitted(post) == post.ok /\ ~post.draft

\* the rest of a round, with the object create_post_object returned
append_post(post) ==
  /\ post_objs' = [post_objs EXCEPT ![i] = post]
  /\ list_of_post_objects' =
       IF admitted(post) THEN Append(list_of_post_objects, i) ELSE list_of_post_objects

\* one round of "for post_file in post_files_to_compile"
ConstructPost ==
  /\ pc = "construct"
  /\ UNCHANGED lvars
  /\ i <= Len(post_files_to_compile)
  /\ append_post(create_post_object(post_files_to_compile[i].stem,
                                    post_files_to_compile[i].text))
  /\ i' = i + 1
  /\ UNCHANGED <<files, pc, post_files_to_compile, last_unhidden_post, next, prev,
                 slugs, written, index_written, link_writes>>

\* the loop is over: sorted(list_of_post_objects, reverse=True)
SortPosts ==
  /\ pc = "construct"
  /\ UNCHANGED lvars
  /\ i > Len(post_files_to_compile)
  /\ list_of_post_objects' = sorted_reverse(list_of_post_objects, dateOf)
  /\ last_unhidden_post' = 0
  /\ i' = 1
  /\ pc' = "link"
  /\ UNCHANGED <<files, post_files_to_compile, post_objs, next, prev, slugs,
                 written, index_written, link_writes>>

\* the successor of the k-th post of the list, None (0) for the last
successor(chain, k) == IF k + 1 <= Len(chain) THEN chain[k + 1] ELSE 0

\* linked_next without the splice: a hidden post leaves every __next alone
linked_next_no_splice(nx, post, hidden, last, next_post) ==
  IF hidden THEN nx ELSE [nx EXCEPT ![post] = next_post]

\* linked_prev that links a hidden post like any other
linked_prev_of_hidden(pv, post, hidden, last) == [pv EXCEPT ![post] = last]

\* the fields __next after a round: a hidden post makes the last non-hidden
\* post point to the hidden post's successor, a non-hidden post points to
\* its own successor
linked_next(nx, post, hidden, last, next_post) ==
  IF hidden
  THEN (IF last # 0 THEN [nx EXCEPT ![last] = next_post] ELSE nx)
  ELSE [nx EXCEPT ![post] = next_post]

\* the fields __prev after a round: only a non-hidden post gets one
linked_prev(pv, post, hidden, last) ==
  IF hidden THEN pv ELSE [pv EXCEPT ![post] = last]

\* a link pass that sets next of every post, hidden or not, before it
\* looks at the flag
next_written_hidden_too(w, post, hidden, last) ==
  IF hidden /\ last # 0
  THEN [w EXCEPT ![last] = @ + 1, ![post] = @ + 1]
  ELSE [w EXCEPT ![post] = @ + 1]

\* the number of assignments to next of every post after a round: a hidden
\* post makes one to the last non-hidden post, a non-hidden post one to
\* itself
next_written(w, post, hidden, last) ==
  IF hidden
  THEN (IF last # 0 THEN [w EXCEPT ![last] = @ + 1] ELSE w)
  ELSE [w EXCEPT ![post] = @ + 1]

\* the number of assignments to prev of every post after a round
prev_written(w, post, hidden) ==
  IF hidden THEN w ELSE [w EXCEPT ![post] = @ + 1]

\* one round for the post at position i, with its successor next_post
link(post, next_post) ==
  /\ next' = linked_next(next, post, post_objs[post].hidden, last_unhidden_post, next_post)
  /\ prev' = linked_prev(prev, post, post_objs[post].hidden, last_unhidden_post)
  /\ link_writes' =
       [next |-> next_written(link_writes.next, post, post_objs[post].hidden,
                              last_unhidden_post),
        prev |-> prev_written(link_writes.prev, post, post_objs[post].hidden)]
  /\ last_unhidden_post' = IF post_objs[post].hidden THEN last_unhidden_post ELSE post

\* one round of "for i in range(0, len(list_of_post_objects))"
LinkPost ==
  /\ pc = "link"
  /\ UNCHANGED lvars
  /\ i <= Len(list_of_post_objects)
  /\ link(list_of_post_objects[i], successor(list_of_post_objects, i))
  /\ i' = i + 1
  /\ UNCHANGED <<files, pc, post_files_to_compile, post_objs, list_of_post_objects,
                 slugs, written, index_written>>

\* return list_of_post_objects; main goes on with index_written = False
ReturnChain ==
  /\ pc = "link"
  /\ UNCHANGED lvars
  /\ i > Len(list_of_post_objects)
  /\ index_written' = FALSE
  /\ i' = 1
  /\ pc' = "write"
  /\ UNCHANGED <<files, post_files_to_compile, post_objs, list_of_post_objects,
                 last_unhidden_post, next, prev, slugs, written, link_writes>>

(***************************************************************************)
(* main                                                                    *)
(***************************************************************************)
INDEX_FILE == <<"index", ".html">>
FEED_FILE == <<"atom", ".xml">>

\* what create_html renders of a post
html_of(post, outfile) ==
  [post |-> post, outfile |-> outfile, next |-> next[post], prev |-> prev[post],
   posts |-> <<>>]

\* one round of "for post in blogchain": to_dict, create_html and open read
\* the post's outfile, one after the other
\* the two open(...).write(html_contents) of one round
write_page(post, html_contents, r3) ==
  /\ slugs' = r3
  /\ IF ~index_written /\ ~post_objs[post].hidden
     THEN /\ written' = written \o
               << [file |-> outfile_of(r3.ret), content |-> html_contents, by |-> "page"],
                  [file |-> INDEX_FILE, content |-> html_contents, by |-> "index"] >>
          /\ index_written' = TRUE
     ELSE /\ written' = Append(written,
               [file |-> outfile_of(r3.ret), content |-> html_contents, by |-> "page"])
          /\ UNCHANGED index_written

\* create_html (r2 is the state after its read of outfile), then the writes
render_and_write(post, stem, r2) ==
  write_page(post, html_of(post, outfile_of(r2.ret)), read_slug(r2, post, stem))

\* to_dict (its read of outfile gives r1), then create_html
dict_and_render(post, stem, r1) == render_and_write(post, stem, read_slug(r1, post, stem))

write_post(post, stem) == dict_and_render(post, stem, read_slug(slugs, post, stem))

WritePost ==
  /\ pc = "write"
  /\ UNCHANGED lvars
  /\ i <= Len(list_of_post_objects)
  /\ write_post(list_of_post_objects[i],
                post_files_to_compile[list_of_post_objects[i]].stem)
  /\ i' = i + 1
  /\ UNCHANGED <<files, pc, post_files_to_compile, post_objs, list_of_post_objects,
                 last_unhidden_post, next, prev, link_writes>>

RECURSIVE unhidden(_)
unhidden(chain) ==
  IF chain = <<>> THEN <<>>
  ELSE (IF post_objs[Head(chain)].hidden THEN <<>> ELSE <<Head(chain)>>)
       \o unhidden(Tail(chain))

\* create_atom_feed, written to atom.xml after the loop
WriteFeed ==
  /\ pc = "write"
  /\ UNCHANGED lvars
  /\ i > Len(list_of_post_objects)
  /\ written' = Append(written,
       [file |-> FEED_FILE,
        content |-> [post |-> 0, outfile |-> <<>>, next |-> 0, prev |-> 0,
                     posts |-> unhidden(list_of_post_objects)],
        by |-> "feed"])
  /\ pc' = "done"
  /\ UNCHANGED <<files, post_files_to_compile, i, post_objs, list_of_post_objects,
                 last_unhidden_post, next, prev, slugs, index_written, link_writes>>

Next == ListFiles \/ ConstructPost \/ SortPosts \/ LinkPost \/ ReturnChain
          \/ WritePost \/ WriteFeed

Spec == Init /\ [][Next]_vars

SpecChain == InitChain /\ [][Next]_vars

SpecSort == InitSort /\ [][Next]_vars

SpecParse == InitParse /\ [][Next]_vars

SpecTies == InitTies /\ [][Next]_vars

(***************************************************************************)
(* Post.setlocale and Post.__create_printable_date, run by several threads *)
(* at once, each for a post with a date.  A step is one call that another  *)
(* thread can come between.                                                *)
(***************************************************************************)
Threads == 1..NThreads

\* the values of a post's lang: a locale the system has, one it does not
\* have, and the empty value of a header line "lang:"
Langs == {<<"de_DE">>, <<"xx_XX">>, <<>>}

\* the locales locale.setlocale accepts
InstalledLocales == {<<"C">>, <<"de_DE">>}

InitLocale ==
  /\ files = <<>>
  /\ pc = "format"
  /\ post_files_to_compile = <<>>
  /\ i = 1
  /\ post_objs = <<>>
  /\ list_of_post_objects = <<>>
  /\ last_unhidden_post = 0
  /\ next = <<>>
  /\ prev = <<>>
  /\ slugs = [slug |-> <<>>, uids |-> {}, calls |-> <<>>, reads |-> <<>>, ret |-> <<>>]
  /\ written = <<>>
  /\ index_written = FALSE
  /\ link_writes = [next |-> <<>>, prev |-> <<>>]
  /\ LOCALE_LOCK = 0
  /\ lc_all = BaseLocale
  /\ tpc = [t \in Threads |-> "call"]
  /\ tlang \in [Threads -> Langs]
  /\ saved = [t \in Threads |-> <<>>]
  /\ result = [t \in Threads |-> <<>>]
  /\ exc = [t \in Threads |-> FALSE]
  /\ left = [t \in Threads |-> [path |-> "none", before |-> <<>>, after |-> <<>>]]
  /\ strftimes = {}

mvars == <<files, pc, post_files_to_compile, i, post_objs, list_of_post_objects,
           last_unhidden_post, next, prev, slugs, written, index_written,
           link_writes>>

\* a thread has switched the locale and not yet set it back
Switched(t) == tpc[t] \in {"strftime", "finally"}

\* one call of date.strftime(FMT_DATE_OUTPUT) by the thread t
strftime_call(t, kind) ==
  [by |-> t, kind |-> kind, lock |-> LOCALE_LOCK, lc |-> lc_all,
   switched |-> {u \in Threads : Switched(u)}]

\* the date in the names of the locale lc
formatted(lc) == <<"date in">> \o lc

\* "with self.LOCALE_LOCK:" of setlocale, reached for a truthy locale
Acquire(t) ==
  /\ tpc[t] = "call"
  /\ tlang[t] # <<>>
  /\ LOCALE_LOCK = 0
  /\ LOCALE_LOCK' = t
  /\ tpc' = [tpc EXCEPT ![t] = "saved"]
  /\ UNCHANGED <<lc_all, tlang, saved, result, exc, strftimes, left, mvars>>

\* saved = locale.setlocale(locale.LC_ALL)
SaveLocale(t) ==
  /\ tpc[t] = "saved"
  /\ saved' = [saved EXCEPT ![t] = lc_all]
  /\ tpc' = [tpc EXCEPT ![t] = "setlocale"]
  /\ UNCHANGED <<LOCALE_LOCK, lc_all, tlang, result, exc, strftimes, left, mvars>>

\* locale.setlocale(locale.LC_ALL, name): locale.Error for a name the
\* system does not have, the locale is left as it is then
SwitchLocale(t) ==
  /\ tpc[t] = "setlocale"
  /\ IF tlang[t] \in InstalledLocales
     THEN /\ lc_all' = tlang[t]
          /\ tpc' = [tpc EXCEPT ![t] = "strftime"]
          /\ UNCHANGED exc
     ELSE /\ exc' = [exc EXCEPT ![t] = TRUE]
          /\ tpc' = [tpc EXCEPT ![t] = "finally"]
          /\ UNCHANGED lc_all
  /\ UNCHANGED <<LOCALE_LOCK, tlang, saved, result, strftimes, left, mvars>>

\* result = date.strftime(FMT_DATE_OUTPUT) in the with block; it may raise
Format(t) ==
  /\ tpc[t] = "strftime"
  /\ strftimes' = strftimes \cup {strftime_call(t, "locale")}
  /\ \E raises \in BOOLEAN :
       /\ exc' = [exc EXCEPT ![t] = raises]
       /\ result' = [result EXCEPT ![t] = IF raises THEN <<>> ELSE formatted(lc_all)]
  /\ tpc' = [tpc EXCEPT ![t] = "finally"]
  /\ UNCHANGED <<LOCALE_LOCK, lc_all, tlang, saved, left, mvars>>

\* setlocale's finally that sets nothing
finally_nothing(saved_locale, current) == current

\* the locale that "finally: locale.setlocale(locale.LC_ALL, saved)" sets
finally_locale(saved_locale, current) == saved_locale

RestoreLocale(t) ==
  /\ tpc[t] = "finally"
  /\ lc_all' = finally_locale(saved[t], lc_all)
  /\ tpc' = [tpc EXCEPT ![t] = "release"]
  /\ UNCHANGED <<LOCALE_LOCK, tlang, saved, result, exc, strftimes, left, mvars>>

\* the end of "with self.LOCALE_LOCK:"; an exception is caught by
\* "except Exception" and logged; then "if not result:"
Release(t) ==
  /\ tpc[t] = "release"
  /\ LOCALE_LOCK' = 0
  /\ left' = [left EXCEPT ![t] =
       [path |-> IF exc[t] THEN (IF tlang[t] \in InstalledLocales THEN "raised" ELSE "rejected")
                 ELSE "formatted",
        before |-> saved[t], after |-> lc_all]]
  /\ exc' = [exc EXCEPT ![t] = FALSE]
  /\ tpc' = [tpc EXCEPT ![t] = IF result[t] = <<>> THEN "fallback" ELSE "return"]
  /\ UNCHANGED <<lc_all, tlang, saved, result, strftimes, mvars>>

\* "if not locale" skips the with block
SkipLocale(t) ==
  /\ tpc[t] = "call"
  /\ tlang[t] = <<>>
  /\ tpc' = [tpc EXCEPT ![t] = "fallback"]
  /\ UNCHANGED <<LOCALE_LOCK, lc_all, tlang, saved, result, exc, strftimes, left, mvars>>

\* "if not result: result = date.strftime(FMT_DATE_OUTPUT)", outside the
\* with block; an exception leaves __create_printable_date
Fallback(t) ==
  /\ tpc[t] = "fallback"
  /\ strftimes' = strftimes \cup {strftime_call(t, "fallback")}
  /\ \E raises \in BOOLEAN :
       /\ exc' = [exc EXCEPT ![t] = raises]
       /\ result' = [result EXCEPT ![t] = IF raises THEN <<>> ELSE formatted(lc_all)]
  /\ tpc' = [tpc EXCEPT ![t] = "return"]
  /\ UNCHANGED <<LOCALE_LOCK, lc_all, tlang, saved, left, mvars>>

NextLocale ==
  \E t \in Threads :
    \/ Acquire(t) \/ SaveLocale(t) \/ SwitchLocale(t) \/ Format(t)
    \/ RestoreLocale(t) \/ Release(t) \/ SkipLocale(t) \/ Fallback(t)

SpecLocale == InitLocale /\ [][NextLocale]_vars

(***************************************************************************)
(* What the claims speak of                                                *)
(***************************************************************************)
\* create_blogchain has returned its list to main
Returned == pc \in {"write", "done"}

chain == list_of_post_objects

InChain == {chain[k] : k \in 1..Len(chain)}

IsHidden(p) == post_objs[p].hidden

\* the non-hidden posts of the returned list, in its order
visible == unhidden(chain)

\* the posts met by following next from p, at most fuel of them
RECURSIVE Walk(_, _)
Walk(p, fuel) == IF p = 0 \/ fuel = 0 THEN <<>> ELSE <<p>> \o Walk(next[p], fuel - 1)

FirstVisible == IF visible = <<>> THEN 0 ELSE visible[1]

\* the positions a < c of the list with only hidden posts between them
HiddenBetween(a, c) == \A k \in (a + 1)..(c - 1) : IsHidden(chain[k])

(***************************************************************************)
(* C1: after create_blogchain returns, every non-hidden post p with a next *)
(* has p.next.prev = p, and following next from the first non-hidden post  *)
(* of the list visits every non-hidden post exactly once, in the order of  *)
(* the list, and ends at a post whose next is None.                        *)
(***************************************************************************)
C1_ChainIntegrity ==
  Returned =>
    /\ \A p \in InChain : (~IsHidden(p) /\ next[p] # 0) => prev[next[p]] = p
    /\ Walk(FirstVisible, Len(chain) + 1) = visible

\* a returned list of three non-hidden posts with a hidden post between
\* the first two and one at the end
C1_Witness ==
  /\ Returned
  /\ Len(visible) = 3
  /\ Len(chain) = 5
  /\ IsHidden(chain[2]) /\ IsHidden(chain[5])

(***************************************************************************)
(* C2: after create_blogchain returns, the hidden posts are elements of    *)
(* the list at their place in the order of dates, no next or prev refers   *)
(* to a hidden post, a hidden post's own next and prev are None, and two   *)
(* non-hidden posts A and C with only hidden posts between them, however   *)
(* many, have A.next = C and C.prev = A; a hidden run at the head leaves   *)
(* the first non-hidden post without prev, one at the tail leaves the last *)
(* non-hidden post without next.                                           *)
(***************************************************************************)
C2_HiddenSpliced ==
  Returned =>
    /\ \A p \in Posts : (post_objs[p].ok /\ IsHidden(p)) => p \in InChain
    /\ \A a, c \in 1..Len(chain) : a < c => dateOf[chain[a]] >= dateOf[chain[c]]
    /\ \A p \in Posts : /\ next[p] # 0 => ~IsHidden(next[p])
                        /\ prev[p] # 0 => ~IsHidden(prev[p])
    /\ \A p \in InChain : IsHidden(p) => (next[p] = 0 /\ prev[p] = 0)
    /\ \A a, c \in 1..Len(chain) :
         (a < c /\ ~IsHidden(chain[a]) /\ ~IsHidden(chain[c]) /\ HiddenBetween(a, c))
           => (next[chain[a]] = chain[c] /\ prev[chain[c]] = chain[a])
    /\ \A c \in 1..Len(chain) :
         (~IsHidden(chain[c]) /\ HiddenBetween(0, c)) => prev[chain[c]] = 0
    /\ \A a \in 1..Len(chain) :
         (~IsHidden(chain[a]) /\ HiddenBetween(a, Len(chain) + 1)) => next[chain[a]] = 0

\* three hidden posts in a row between two non-hidden posts
C2_Witness ==
  /\ Returned
  /\ Len(chain) = 5
  /\ ~IsHidden(chain[1]) /\ ~IsHidden(chain[5])
  /\ HiddenBetween(1, 5)
  /\ next[chain[1]] = chain[5]

(***************************************************************************)
(* The files, read without the program's parser                            *)
(***************************************************************************)
\* the lines of the header of a file: its second last non-empty segment
SecondLast(segs) == IF Len(segs) < 2 THEN <<>> ELSE segs[Len(segs) - 1]

HeaderLines(f) == SecondLast(segments_of(f.text))

\* the line reads "key: ...", whatever the case of the key and the blanks
IsKeyLine(line, key) ==
  \E c \in 1..Len(line) :
    /\ line[c] = ":"
    /\ \A b \in 1..(c - 1) : line[b] # ":"
    /\ \E k \in 1..(c - 1) :
         /\ Lower(line[k]) = key
         /\ \A b \in 1..(c - 1) : b # k => line[b] = " "

HasKeyLine(lines, key) == \E n \in 1..Len(lines) : IsKeyLine(lines[n], key)

HasKey(f, key) == HasKeyLine(HeaderLines(f), key)

HasLineWithoutColon(lines) ==
  \E n \in 1..Len(lines) : \A b \in 1..Len(lines[n]) : lines[n][b] # ":"

\* the three ways a file fails construction: fewer than two segments, a
\* header line without ":", no date key
FailsWith(lines) ==
  lines = <<>> \/ HasLineWithoutColon(lines) \/ ~HasKeyLine(lines, "date")

FailsConstruction(f) == FailsWith(HeaderLines(f))

FileOf(p) == post_files_to_compile[p]

\* the directory listings with the files of dir in another order
Reorderings(dir) ==
  { [k \in 1..Len(dir) |-> dir[pi[k]]] : pi \in Permutations(1..Len(dir)) }

RECURSIVE admitted_indices(_, _)
admitted_indices(objs, k) ==
  IF k > Len(objs) THEN <<>>
  ELSE (IF admitted(objs[k]) THEN <<k>> ELSE <<>>) \o admitted_indices(objs, k + 1)

posts_of(l) == [k \in 1..Len(l) |-> create_post_object(l[k].stem, l[k].text)]

sorted_files(l, objs) ==
  [k \in 1..Len(admitted_indices(objs, 1)) |->
     l[sorted_reverse(admitted_indices(objs, 1), [n \in 1..Len(objs) |-> objs[n].date])[k]]]

files_chain(l) == sorted_files(l, posts_of(l))

\* the files of the list create_blogchain returns for the directory dir
blogchain_files(dir) == files_chain(list_post_files_to_compile(dir))

\* the files of the list that was returned
returned_files == [k \in 1..Len(chain) |-> FileOf(chain[k])]

(***************************************************************************)
(* C3: when the posts of the returned list have publication dates that are *)
(* pairwise distinct, the list is sorted strictly descending by date, and  *)
(* every order of the same files in the directory gives the same list.     *)
(***************************************************************************)
DistinctDates ==
  \A p \in InChain :
    dateOf[p] # 0 /\ \A q \in InChain : p # q => dateOf[p] # dateOf[q]

C3_SortedAnyOrder ==
  (Returned /\ DistinctDates) =>
    /\ \A a, c \in 1..Len(chain) : a < c => dateOf[chain[a]] > dateOf[chain[c]]
    /\ \A dir \in Reorderings(files) : blogchain_files(dir) = returned_files

\* three dated posts that the directory lists oldest first
C3_Witness ==
  /\ Returned /\ DistinctDates
  /\ Len(chain) = 3
  /\ chain = <<3, 2, 1>>

(***************************************************************************)
(* C4: the returned list is ordered newest first: a post is never older    *)
(* than a post that follows it in the list, whatever the files.            *)
(***************************************************************************)
C4_NewestFirst ==
  Returned =>
    \A a, c \in 1..Len(chain) :
      (a < c /\ dateOf[chain[a]] # 0 /\ dateOf[chain[c]] # 0)
        => dateOf[chain[a]] >= dateOf[chain[c]]

(***************************************************************************)
(* C5: a post whose header has a draft key, whatever its value, is never   *)
(* in create_blogchain's list and never the next or prev of a post.        *)
(***************************************************************************)
C5_DraftsExcluded ==
  \A p \in Posts :
    HasKey(FileOf(p), "draft") =>
      /\ p \notin InChain
      /\ \A q \in Posts : next[q] # p /\ prev[q] # p

\* a run that is over, with "draft: false", "Draft:" and a published post
C5_Witness ==
  /\ pc = "done"
  /\ \E p, q \in Posts :
       /\ <<"draft", ":", " ", "false">> \in {FileOf(p).text[n] : n \in 1..Len(FileOf(p).text)}
       /\ <<"Draft", ":">> \in {FileOf(q).text[n] : n \in 1..Len(FileOf(q).text)}
       /\ post_objs[p].ok /\ post_objs[q].ok
  /\ Len(chain) = 1

(***************************************************************************)
(* C6: whatever files fail construction (no date key, fewer than two       *)
(* segments, a header line without ":"), create_blogchain comes to its     *)
(* end and returns the non-draft posts of the other files, each once: two  *)
(* for a file without date with two valid files, none for no files or no   *)
(* valid file.                                                             *)
(***************************************************************************)
C6_BadFilesSkipped ==
  /\ \A p \in Posts :
       (pc # "list" /\ (pc = "construct" => p < i))
         => (FailsConstruction(FileOf(p)) <=> post_objs[p] = NoPost)
  /\ Returned =>
       /\ \A a, c \in 1..Len(chain) : a # c => chain[a] # chain[c]
       /\ InChain = {p \in Posts : ~FailsConstruction(FileOf(p)) /\ ~HasKey(FileOf(p), "draft")}

\* a file without date key and two valid files: a list of the two
C6_Witness ==
  /\ Returned
  /\ Len(post_files_to_compile) = 3
  /\ \E p \in Posts : HeaderLines(FileOf(p)) # <<>> /\ ~HasKey(FileOf(p), "date")
  /\ Len(chain) = 2
  /\ \A p \in InChain : HasKey(FileOf(p), "title") /\ dateOf[p] # 0

(***************************************************************************)
(* C7: a file whose header lacks the title key or the date key is          *)
(* rejected: no Post is constructed from it and none is in the returned    *)
(* list.                                                                   *)
(***************************************************************************)
C7_RequiredKeys ==
  Returned =>
    \A p \in Posts :
      (~HasKey(FileOf(p), "title") \/ ~HasKey(FileOf(p), "date"))
        => (post_objs[p] = NoPost /\ p \notin InChain)

(***************************************************************************)
(* C8: a file whose date is in neither format DD.MM.YY, DD.MM.YYYY is not  *)
(* constructed and not in the returned list, every post of the list has a  *)
(* parsed date, and the same day written with two and with four digits of  *)
(* the year is the same date.                                              *)
(***************************************************************************)
\* the date of a header, as written: the tokens after "date:"
RECURSIVE DateWritten(_, _)
DateWritten(lines, n) ==
  IF n > Len(lines) THEN <<>>
  ELSE IF IsKeyLine(lines[n], "date")
       THEN Strip(SubSeq(lines[n], IndexOf(lines[n], ":", 1) + 1, Len(lines[n])))
       ELSE DateWritten(lines, n + 1)

\* DD.MM.YY with digits only
IsShortForm(v) ==
  /\ Len(v) = 8
  /\ v[3] = "." /\ v[6] = "."
  /\ \A b \in {1, 2, 4, 5, 7, 8} : v[b] \in Digits

\* DD.MM.20YY for DD.MM.YY
WithCentury(v) == SubSeq(v, 1, 6) \o <<"2", "0">> \o SubSeq(v, 7, 8)

SameDayWritten(v, w) == IsShortForm(v) /\ w = WithCentury(v)

C8_OnlyParsedDates ==
  Returned =>
    /\ \A p \in InChain : dateOf[p] # 0
    /\ \A p, q \in InChain :
         SameDayWritten(DateWritten(HeaderLines(FileOf(p)), 1),
                        DateWritten(HeaderLines(FileOf(q)), 1))
           => dateOf[p] = dateOf[q]

(***************************************************************************)
(* C9: in one run every read of a post's slug gives the same value and the *)
(* generator runs at most once for a post, two posts never have the same   *)
(* slug, and the slugs are a function of the set of files and their dates: *)
(* the order in which the directory lists the files does not change them.  *)
(***************************************************************************)
\* the three reads of the slug of the k-th post of a list in one round of main
reads_of_round(ss, k, stem) ==
  read_slug(read_slug(read_slug(ss, k, stem), k, stem), k, stem)

RECURSIVE slugs_after(_, _, _)
slugs_after(cf, k, ss) ==
  IF k > Len(cf) THEN ss
  ELSE slugs_after(cf, k + 1, reads_of_round(ss, k, cf[k].stem))

NoSlugs(n) ==
  [slug |-> [k \in 1..n |-> NoSlug], uids |-> {}, calls |-> [k \in 1..n |-> 0],
   reads |-> [k \in 1..n |-> <<>>], ret |-> <<>>]

slug_pairs(cf, ss) == {<<cf[k].stem, ss.slug[k].value>> : k \in 1..Len(cf)}

slugs_of_chain(cf) == slug_pairs(cf, slugs_after(cf, 1, NoSlugs(Len(cf))))

\* the slug of every file of the list after a run of main on the directory dir
slugs_of_run(dir) == slugs_of_chain(blogchain_files(dir))

\* the slug of every file of the list in this run
slugs_now == {<<FileOf(p).stem, slugs.slug[p].value>> : p \in InChain}

C9_SlugsStableUniqueOrderFree ==
  /\ \A p \in Posts :
       /\ slugs.calls[p] <= 1
       /\ \A a, b \in 1..Len(slugs.reads[p]) : slugs.reads[p][a] = slugs.reads[p][b]
  /\ \A p, q \in Posts :
       (p # q /\ slugs.slug[p].set /\ slugs.slug[q].set)
         => slugs.slug[p].value # slugs.slug[q].value
  /\ pc = "done" => \A dir \in Reorderings(files) : slugs_of_run(dir) = slugs_now

(***************************************************************************)
(* C10: main writes one page for every post of the list, hidden or not, to *)
(* the file of its slug, in the order of the list; index.html is written   *)
(* at most once, with the page of the first non-hidden post of the list,   *)
(* never with the page of a hidden post and not at all when no post is     *)
(* non-hidden; the feed is written after all pages.                        *)
(***************************************************************************)
IsPage(w) == w.by = "page"

pages == SelectSeq(written, IsPage)

C10_PagesIndexFeed ==
  pc = "done" =>
    /\ Len(pages) = Len(chain)
    /\ \A k \in 1..Len(pages) :
         /\ pages[k].content.post = chain[k]
         /\ pages[k].file = outfile_of(slugs.slug[chain[k]].value)
    /\ Cardinality({k \in 1..Len(written) : written[k].file = INDEX_FILE}) <= 1
    /\ \A k \in 1..Len(written) :
         written[k].file = INDEX_FILE
           => (visible # <<>> /\ written[k].content.post = visible[1])
    /\ written[Len(written)].by = "feed"
    /\ \A k \in 1..(Len(written) - 1) : written[k].by # "feed"

(***************************************************************************)
(* C11: __segment takes the second last non-empty segment for the header   *)
(* and the last for the text, so a document gives the same header and the  *)
(* same text with and without a delimiter line before its header; a file   *)
(* of fewer than two non-empty segments gives no Post.                     *)
(***************************************************************************)
\* create_post_object has been called for the p-th file
Processed(p) == pc # "list" /\ (pc = "construct" => p < i)

\* a line that starts with --- and holds only blanks after it
IsDelimLine(line) ==
  line # <<>> /\ line[1] = "---" /\ \A b \in 2..Len(line) : line[b] = " "

HasContent(line) == ~IsBlank(line) /\ ~IsDelimLine(line)

\* no delimiter line among the lines j..k
SameSegment(text, j, k) == \A m \in j..k : ~IsDelimLine(text[m])

\* the first line with content of every segment of the file
Starts(text) ==
  { k \in 1..Len(text) :
      /\ HasContent(text[k])
      /\ \A j \in 1..(k - 1) : SameSegment(text, j, k) => ~HasContent(text[j]) }

Max(S) == CHOOSE x \in S : \A y \in S : y <= x

\* the last line with content of the segment that starts in line k
EndOf(text, k) ==
  Max({m \in k..Len(text) : SameSegment(text, k, m) /\ HasContent(text[m])})

SegmentFrom(text, k) == StripEnds(SubSeq(text, k, EndOf(text, k)))

\* the last segment with content, and the one before it
BodyRead(text) == SegmentFrom(text, Max(Starts(text)))

HeaderRead(text) == SegmentFrom(text, Max(Starts(text) \ {Max(Starts(text))}))

KeyOf(line) == Strip(LowerSeq(SubSeq(line, 1, IndexOf(line, ":", 1) - 1)))

KeysOf(lines) == {KeyOf(lines[n]) : n \in 1..Len(lines)}

SameDocument(o1, o2) ==
  o1.ok = o2.ok /\ o1.meta = o2.meta /\ o1.raw_text = o2.raw_text

C11_HeaderSecondLast ==
  \A p \in Posts :
    Processed(p) =>
      /\ Cardinality(Starts(FileOf(p).text)) < 2 => post_objs[p] = NoPost
      /\ post_objs[p].ok =>
           /\ post_objs[p].raw_text = BodyRead(FileOf(p).text)
           /\ DOMAIN post_objs[p].meta = KeysOf(HeaderRead(FileOf(p).text))
      /\ \A q \in Posts :
           (Processed(q) /\ FileOf(p).text = <<Delim>> \o FileOf(q).text)
             => SameDocument(post_objs[p], post_objs[q])

\* a document with three segments and the same with an opening delimiter
\* line, both constructed with the author key of the middle segment
C11_Witness ==
  /\ Returned
  /\ Len(chain) = 2
  /\ \E p, q \in InChain :
       /\ FileOf(p).text = <<Delim>> \o FileOf(q).text
       /\ Cardinality(Starts(FileOf(q).text)) = 3
       /\ <<"author">> \in DOMAIN post_objs[p].meta
       /\ post_objs[q].raw_text = <<BodyLine>>

(***************************************************************************)
(* C12: only the non-blank lines of a header need a ":": a header whose    *)
(* non-blank lines all hold one is parsed, blank lines between them or     *)
(* not, with the lowercased, trimmed text before the first ":" as key, the *)
(* trimmed text after it as value and the last line of a key deciding its  *)
(* value; a non-blank line without ":" gives no Post.                      *)
(***************************************************************************)
NonBlank(lines) == {n \in 1..Len(lines) : ~IsBlank(lines[n])}

HasColon(line) == \E b \in 1..Len(line) : line[b] = ":"

ValueOf(line) == Strip(SubSeq(line, IndexOf(line, ":", 1) + 1, Len(line)))

\* the last non-blank line of the key
LastWith(lines, key) == Max({n \in NonBlank(lines) : KeyOf(lines[n]) = key})

\* the header as the claim reads it
MetaRead(lines) ==
  [key \in {KeyOf(lines[n]) : n \in NonBlank(lines)} |->
     ValueOf(lines[LastWith(lines, key)])]

HeaderParsedAs(post, lines) ==
  /\ (\E n \in NonBlank(lines) : ~HasColon(lines[n])) => post = NoPost
  /\ ((\A n \in NonBlank(lines) : HasColon(lines[n])) /\ HasKeyLine(lines, "date"))
       => (post.ok /\ post.meta = MetaRead(lines))

C12_NonBlankLinesNeedColon ==
  \A p \in Posts :
    (Processed(p) /\ Cardinality(Starts(FileOf(p).text)) >= 2)
      => HeaderParsedAs(post_objs[p], HeaderRead(FileOf(p).text))

(***************************************************************************)
(* C13: with several threads in __create_printable_date, no call formats   *)
(* its date while another call has the locale of the process switched:     *)
(* every strftime, the one in the with block and the fallback one, runs    *)
(* while its own thread holds LOCALE_LOCK or while no thread has a         *)
(* switched locale.                                                        *)
(***************************************************************************)
C13_NoFormatInForeignLocale ==
  \A e \in strftimes : e.lock = e.by \/ e.switched = {}

(***************************************************************************)
(* C14: however the with block of __create_printable_date is left          *)
(* (formatted, locale rejected by setlocale, strftime raised), the locale  *)
(* of the process is then what it was before and LOCALE_LOCK is released:  *)
(* the lock is only ever held by a thread on its way to the release, so a  *)
(* later call can acquire it.                                              *)
(***************************************************************************)
C14_LocaleRestoredLockReleased ==
  /\ LOCALE_LOCK = 0 => lc_all = BaseLocale
  /\ \A t \in DOMAIN left : left[t].path # "none" => left[t].after = left[t].before
  /\ \A t \in DOMAIN tpc : tpc[t] \in {"call", "fallback", "return"} => LOCALE_LOCK # t
  /\ LOCALE_LOCK # 0 =>
       tpc[LOCALE_LOCK] \in {"saved", "setlocale", "strftime", "finally", "release"}

\* both calls are over, one after strftime raised in the with block, the
\* other after setlocale rejected its locale
C14_Witness ==
  /\ \A t \in DOMAIN tpc : tpc[t] = "return"
  /\ \E t, u \in DOMAIN left : left[t].path = "raised" /\ left[u].path = "rejected"
  /\ \E e \in strftimes : e.kind = "locale" /\ e.lc = <<"de_DE">>
  /\ LOCALE_LOCK = 0

(***************************************************************************)
(* C15 as claimed: in one run of create_blogchain next and prev of every   *)
(* post of the returned list are each assigned exactly once by the link    *)
(* pass, and no other field of a post changes after its construction.      *)
(***************************************************************************)
\* the fields of every Post are those its construction gave, and no slug
\* has been made when create_blogchain returns
FieldsAsConstructed ==
  /\ \A p \in Posts :
       Processed(p) => post_objs[p] = create_post_object(FileOf(p).stem, FileOf(p).text)
  /\ (pc = "write" /\ i = 1) => \A p \in Posts : ~slugs.slug[p].set

C15_LinksAssignedOnce ==
  Returned =>
    /\ \A p \in InChain : link_writes.next[p] = 1 /\ link_writes.prev[p] = 1
    /\ FieldsAsConstructed

(***************************************************************************)
(* C15 amended: the link pass assigns prev of a non-hidden post once and   *)
(* its next once and once more for every hidden post that follows it       *)
(* before the next non-hidden post; next and prev of a hidden post are     *)
(* never assigned; no other field of a post changes after construction.    *)
(***************************************************************************)
\* the hidden posts that follow the post at position k of the list directly
HiddenAfter(k) ==
  {c \in (k + 1)..Len(chain) : \A m \in (k + 1)..c : IsHidden(chain[m])}

C15_LinksAssignedByHiddenRuns ==
  Returned =>
    /\ \A k \in 1..Len(chain) :
         IF IsHidden(chain[k])
         THEN link_writes.next[chain[k]] = 0 /\ link_writes.prev[chain[k]] = 0
         ELSE /\ link_writes.prev[chain[k]] = 1
              /\ link_writes.next[chain[k]] = 1 + Cardinality(HiddenAfter(k))
    /\ FieldsAsConstructed

\* a non-hidden post with two hidden posts and then a non-hidden post after
\* it: its next was assigned three times
C15_Witness ==
  /\ Returned
  /\ Len(chain) >= 4
  /\ ~IsHidden(chain[1]) /\ IsHidden(chain[2]) /\ IsHidden(chain[3]) /\ ~IsHidden(chain[4])
  /\ link_writes.next[chain[1]] = 3
  /\ next[chain[1]] = chain[4]

(***************************************************************************)
(* C16: posts compare by their publication dates alone, and posts of equal *)
(* publication date stand in the returned list in the order in which the   *)
(* directory listed their files, whatever their titles, flags and names.   *)
(***************************************************************************)
C16_TiesKeepListingOrder ==
  Returned =>
    \A a, c \in 1..Len(chain) :
      (a < c /\ dateOf[chain[a]] = dateOf[chain[c]]) => chain[a] < chain[c]

(***************************************************************************)
(* C17: in one run of main no file is written twice with different         *)
(* content: the pages of two posts go to different files, and no page goes *)
(* to index.html, the file of the landing page, whatever the names of the  *)
(* source files.                                                           *)
(***************************************************************************)
C17_NoFileOverwritten ==
  /\ \A j, k \in 1..Len(written) :
       written[j].file = written[k].file => written[j].content = written[k].content
  /\ \A j, k \in 1..Len(pages) : j # k => pages[j].file # pages[k].file
  /\ \A k \in 1..Len(pages) : pages[k].file # INDEX_FILE

====
